---- MODULE Spec2Model ----
(***************************************************************************)
(* Flight-finder: the multi-source collection loops                        *)
(* (FlightSearchHelper, FlightFinderMCPServer) and the price analysis of   *)
(* FlightAnalyzerService.                                                  *)
(*                                                                         *)
(* Dates are day numbers of December 2024 ("2024-12-01" is 1, a Sunday).   *)
(* Prices are the integers price.amount.  Values the code computes in      *)
(* floating point are kept exactly: integers stay integers, quotients are  *)
(* reduced fractions, and the IEEE specials Infinity and NaN are explicit. *)
(* Recommendation strings are modelled by the rule that pushed them.       *)
(***************************************************************************)
EXTENDS Integers, Sequences, FiniteSets, TLC

VARIABLES impl, tz, includeWeekendAnalysis, dates, sources, idx,
          allResults, calls, pc, error, analysis

\* a connector service instance and the searchFlights calls running on it
VARIABLES apiKey, browser, openBrowsers, launches, closing, closes,
          lastRequestTime, now, starts, proc, started

\* a SkyscannerAPIService.searchFlights call: its counter and the polls it made
VARIABLES attempts, polls

connectorVars == <<apiKey, browser, openBrowsers, launches, closing, closes,
                   lastRequestTime, now, starts, proc, started, attempts, polls>>

vars == <<impl, tz, includeWeekendAnalysis, dates, sources, idx,
          allResults, calls, pc, error, analysis, connectorVars>>

\* no connector call is modelled step by step
NoConnector ==
    /\ apiKey = FALSE
    /\ browser = 0
    /\ openBrowsers = {}
    /\ launches = 0
    /\ closing = FALSE
    /\ closes = 0
    /\ lastRequestTime = 0
    /\ now = 0
    /\ starts = <<>>
    /\ proc = <<>>
    /\ started = 0
    /\ attempts = 0
    /\ polls = <<>>

----------------------------------------------------------------------------
(* Bounds and input sets *)

MaxDate == 3
MaxLen == 3
MaxDates == 2
DaysInMonth == 2

Dates == 1..MaxDate
SourceNames == {"skyscanner", "google_flights"}
ItinLists == {<<>>, <<0>>, <<100>>, <<400>>, <<400, 250>>}
ConnectorItins == {<<>>, <<100>>, <<400, 250>>}
TimeZones == {-1, 0, 1}
SourceLists == {<<"skyscanner", "google_flights">>, <<"skyscanner">>, <<"google_flights">>}
Origin == "LAX"
Destination == "JFK"
Month == "2024-12"
CabinClass == "economy"

\* all sequences over S of length at most n
BoundedSeq(S, n) == UNION {[1..k -> S] : k \in 0..n}

----------------------------------------------------------------------------
(* JavaScript numbers *)

\* Math.min() of no arguments; also the result of adding Infinity.
Infinity == 1000000
\* Infinity - Infinity, 0 / 0.
NaN == 1000001

RECURSIVE GCD(_, _)
GCD(a, b) == IF b = 0 THEN a ELSE GCD(b, a % b)

Abs(x) == IF x < 0 THEN -x ELSE x

NumInf == [k |-> "inf", num |-> 1, den |-> 0]
NumNegInf == [k |-> "-inf", num |-> -1, den |-> 0]
NumNaN == [k |-> "nan", num |-> 0, den |-> 0]

\* the real number n / d (d > 0), reduced
Fin(n, d) ==
    LET g == GCD(Abs(n), d) IN [k |-> "fin", num |-> n \div g, den |-> d \div g]

\* an integer-valued JS number as a Num
Lift(p) ==
    IF p = Infinity THEN NumInf
    ELSE IF p = NaN THEN NumNaN
    ELSE Fin(p, 1)

\* x < y
NumLess(x, y) ==
    IF x.k = "nan" \/ y.k = "nan" THEN FALSE
    ELSE IF x.k = "inf" \/ y.k = "-inf" THEN FALSE
    ELSE IF x.k = "-inf" \/ y.k = "inf" THEN TRUE
    ELSE x.num * y.den < y.num * x.den

\* x * (a / b) for a literal a / b > 0
NumScale(x, a, b) ==
    IF x.k = "fin" THEN Fin(x.num * a, x.den * b) ELSE x

\* x / y for finite x and finite y >= 0
NumDiv(x, y) ==
    IF y.num = 0
    THEN IF x.num = 0 THEN NumNaN
         ELSE IF x.num > 0 THEN NumInf ELSE NumNegInf
    ELSE Fin(x.num * y.den, x.den * y.num)

NumAbs(x) ==
    IF x.k = "fin" THEN Fin(Abs(x.num), x.den)
    ELSE IF x.k = "-inf" THEN NumInf ELSE x

\* Math.round: floor(x + 1/2)
MathRound(x) ==
    IF x.k = "fin" THEN (2 * x.num + x.den) \div (2 * x.den)
    ELSE IF x.k = "nan" THEN NaN ELSE Infinity

\* a - b for a >= b >= 0, either possibly Infinity
Minus(a, b) ==
    IF b = Infinity THEN NaN
    ELSE IF a = Infinity THEN Infinity
    ELSE a - b

RECURSIVE SeqSum(_)
SeqSum(s) == IF s = <<>> THEN 0 ELSE Head(s) + SeqSum(Tail(s))

\* mutant: the first itinerary's price instead of the lowest
MathMinFirst(xs) == IF xs = <<>> THEN Infinity ELSE Head(xs)

\* Math.min(...xs)
RECURSIVE MathMin(_)
MathMin(xs) ==
    IF xs = <<>> THEN Infinity
    ELSE LET m == MathMin(Tail(xs)) IN IF Head(xs) < m THEN Head(xs) ELSE m

Map(f(_), s) == [i \in 1..Len(s) |-> f(s[i])]

PriceOf(p) == p.price

\* mutant: the mean rounded to the nearest integer, as it is displayed
MeanPriceRounded(ps) ==
    IF \E i \in 1..Len(ps) : ps[i].price = Infinity THEN NumInf
    ELSE Lift(MathRound(Fin(SeqSum(Map(PriceOf, ps)), Len(ps))))

\* sum / length of the prices of a non-empty list
MeanPrice(ps) ==
    IF \E i \in 1..Len(ps) : ps[i].price = Infinity THEN NumInf
    ELSE Fin(SeqSum(Map(PriceOf, ps)), Len(ps))

----------------------------------------------------------------------------
(* FlightAnalyzerService *)

Threw(msg) == [status |-> "threw", message |-> msg]
Returned(fn, v) == [status |-> "ok", fn |-> fn, value |-> v]
NotCalled == [status |-> "none"]

JsNull == [type |-> "null"]
JsObject(r) == [type |-> "object", value |-> r]

\* new Date("YYYY-MM-DD") is midnight UTC; getDay() is the host's local day,
\* the day before when the host is west of UTC.  0 = Sunday, 6 = Saturday.
GetDay(date, zone) == (date - 1 + (IF zone < 0 THEN -1 ELSE 0)) % 7

isWeekend(date, zone) == GetDay(date, zone) = 0 \/ GetDay(date, zone) = 6

\* mutant: <= keeps the last of several equally cheap entries
RECURSIVE ReduceCheapestLast(_, _, _)
ReduceCheapestLast(ps, i, min) ==
    IF i > Len(ps) THEN min
    ELSE ReduceCheapestLast(ps, i + 1, IF ps[i].price <= min.price THEN ps[i] ELSE min)

\* prices.reduce((min, current) => current.price < min.price ? current : min)
RECURSIVE ReduceCheapest(_, _, _)
ReduceCheapest(ps, i, min) ==
    IF i > Len(ps) THEN min
    ELSE ReduceCheapest(ps, i + 1, IF ps[i].price < min.price THEN ps[i] ELSE min)

\* prices.reduce((max, current) => current.price > max.price ? current : max)
RECURSIVE ReduceMostExpensive(_, _, _)
ReduceMostExpensive(ps, i, max) ==
    IF i > Len(ps) THEN max
    ELSE ReduceMostExpensive(ps, i + 1, IF ps[i].price > max.price THEN ps[i] ELSE max)

CheapestOf(ps) == ReduceCheapest(ps, 2, ps[1])
MostExpensiveOf(ps) == ReduceMostExpensive(ps, 2, ps[1])

\* [...prices].sort((a, b) => new Date(a.date).getTime() - new Date(b.date).getTime())
\* Array.prototype.sort is stable: entries of one date keep their order.
RECURSIVE InsertByDate(_, _)
InsertByDate(s, x) ==
    IF s = <<>> THEN <<x>>
    ELSE IF x.date < Head(s).date THEN <<x>> \o s
    ELSE <<Head(s)>> \o InsertByDate(Tail(s), x)

\* mutant: the copy is not sorted
SortByDateOmitted(s) == s

RECURSIVE SortByDate(_)
SortByDate(s) ==
    IF s = <<>> THEN <<>>
    ELSE InsertByDate(SortByDate(SubSeq(s, 1, Len(s) - 1)), s[Len(s)])

calculatePriceTrend(sortedPrices) ==
    LET n == Len(sortedPrices)
        y == Map(PriceOf, sortedPrices)
        sumX == SeqSum([i \in 1..n |-> i - 1])
        sumY == SeqSum(y)
        sumXY == SeqSum([i \in 1..n |-> (i - 1) * y[i]])
        sumX2 == SeqSum([i \in 1..n |-> (i - 1) * (i - 1)])
    IN  IF n < 2 THEN Fin(0, 1)
        ELSE IF \E i \in 1..n : y[i] = Infinity THEN NumNaN
        ELSE NumDiv(Fin(n * sumXY - sumX * sumY, n * sumX2 - sumX * sumX),
                    Fin(sumY, n))

generateRecommendations(prices, cheapest, mostExpensive, averagePrice, priceRange, zone) ==
    LET priceTrend == calculatePriceTrend(SortByDate(prices))
        weekendPrices == SelectSeq(prices, LAMBDA p : isWeekend(p.date, zone))
        weekdayPrices == SelectSeq(prices, LAMBDA p : ~isWeekend(p.date, zone))
    IN  (IF NumLess(Lift(cheapest.price), NumScale(averagePrice, 8, 10))
         THEN <<"deal">> ELSE <<>>)
     \o (IF NumLess(NumScale(averagePrice, 13, 10), Lift(mostExpensive.price))
         THEN <<"overpriced">> ELSE <<>>)
     \o (IF NumLess(Fin(1, 10), priceTrend) THEN <<"trendUp">>
         ELSE IF NumLess(priceTrend, Fin(-1, 10)) THEN <<"trendDown">> ELSE <<>>)
     \o (IF /\ Len(weekendPrices) > 0
            /\ Len(weekdayPrices) > 0
            /\ NumLess(NumScale(MeanPrice(weekdayPrices), 12, 10), MeanPrice(weekendPrices))
         THEN <<"weekend">> ELSE <<>>)
     \o (IF Len(prices) >= 7 THEN <<"volume">> ELSE <<>>)
     \o (IF NumLess(NumScale(averagePrice, 5, 10), Lift(priceRange))
         THEN <<"variation">> ELSE <<>>)

analyzePricesAcrossDates(searchResults, zone) ==
    IF Len(searchResults) = 0 THEN Threw("No search results to analyze")
    ELSE
      LET prices == [i \in 1..Len(searchResults) |->
                       [date |-> searchResults[i].date,
                        price |-> MathMin(searchResults[i].itineraries)]]
          cheapest == CheapestOf(prices)
          mostExpensive == MostExpensiveOf(prices)
          averagePrice == MeanPrice(prices)
          priceRange == Minus(mostExpensive.price, cheapest.price)
      IN  Returned("analyzePricesAcrossDates",
            [cheapestDate |-> cheapest.date,
             cheapestPrice |-> cheapest.price,
             mostExpensiveDate |-> mostExpensive.date,
             mostExpensivePrice |-> mostExpensive.price,
             averagePrice |-> MathRound(averagePrice),
             priceRange |-> priceRange,
             recommendations |-> generateRecommendations(prices, cheapest,
                                    mostExpensive, averagePrice, priceRange, zone)])

\* a - b for finite a, b
NumSub(a, b) == Fin(a.num * b.den - b.num * a.den, a.den * b.den)

\* the sources of allPrices in the order Object.entries lists them: first use
RECURSIVE SourceOrder(_)
SourceOrder(allPrices) ==
    IF allPrices = <<>> THEN <<>>
    ELSE LET front == SourceOrder(SubSeq(allPrices, 1, Len(allPrices) - 1))
             s == allPrices[Len(allPrices)].source
         IN  IF \E i \in 1..Len(front) : front[i] = s THEN front
             ELSE Append(front, s)

groupPricesBySource(allPrices) ==
    LET order == SourceOrder(allPrices)
    IN  [i \in 1..Len(order) |->
           [source |-> order[i],
            prices |-> SelectSeq(allPrices, LAMBDA p : p.source = order[i])]]

\* Object.entries(sourcePrices).reduce(..., {source: "", avgPrice: Infinity})
RECURSIVE ReduceBestSource(_, _, _)
ReduceBestSource(groups, i, best) ==
    IF i > Len(groups) THEN best
    ELSE LET avgPrice == MeanPrice(groups[i].prices)
         IN  ReduceBestSource(groups, i + 1,
                IF NumLess(avgPrice, best.avgPrice)
                THEN [source |-> groups[i].source, avgPrice |-> avgPrice]
                ELSE best)

\* `${bestSource.source} tends to have better prices for this route ...`
BestSourceLine(source) ==
    IF source = "skyscanner" THEN "bestSource skyscanner" ELSE "bestSource google_flights"

generateMonthlyRecommendations(allPrices, cheapest, mostExpensive, averagePrice, priceRange, weekendAnalysis) ==
    LET bestSource == ReduceBestSource(groupPricesBySource(allPrices), 1,
                                       [source |-> "", avgPrice |-> NumInf])
        priceTrend == calculatePriceTrend(SortByDate(allPrices))
    IN  (IF NumLess(Lift(cheapest.price), NumScale(averagePrice, 8, 10))
         THEN <<"deal">> ELSE <<>>)
     \o (IF NumLess(NumScale(averagePrice, 13, 10), Lift(mostExpensive.price))
         THEN <<"overpriced">> ELSE <<>>)
     \o (IF /\ bestSource.source # ""
            /\ NumLess(bestSource.avgPrice, NumScale(averagePrice, 95, 100))
         THEN <<BestSourceLine(bestSource.source)>> ELSE <<>>)
     \o (IF weekendAnalysis.type = "null" THEN <<>>
         ELSE IF NumLess(Fin(20, 1), Lift(weekendAnalysis.value.weekendPremium))
         THEN <<"weekendExpensive">>
         ELSE IF NumLess(Lift(weekendAnalysis.value.weekendPremium), Fin(-10, 1))
         THEN <<"weekendCheaper">> ELSE <<>>)
     \o (IF NumLess(Fin(15, 100), priceTrend) THEN <<"trendUp">>
         ELSE IF NumLess(priceTrend, Fin(-15, 100)) THEN <<"trendDown">> ELSE <<>>)
     \o (IF Len(allPrices) >= 20 THEN <<"volume">> ELSE <<>>)
     \o (IF NumLess(NumScale(averagePrice, 6, 10), Lift(priceRange))
         THEN <<"variation">> ELSE <<>>)

\* prices.sort((a, b) => a - b)
RECURSIVE InsertAscending(_, _)
InsertAscending(s, x) ==
    IF s = <<>> THEN <<x>>
    ELSE IF x < Head(s) THEN <<x>> \o s
    ELSE <<Head(s)>> \o InsertAscending(Tail(s), x)

RECURSIVE SortAscending(_)
SortAscending(s) ==
    IF s = <<>> THEN <<>>
    ELSE InsertAscending(SortAscending(SubSeq(s, 1, Len(s) - 1)), s[Len(s)])

\* the square of calculateStandardDeviation: sum((p - mean)^2) / n
VarianceOf(prices) ==
    LET n == Len(prices)
        sum == SeqSum(prices)
    IN  Fin(SeqSum([i \in 1..n |-> (n * prices[i] - sum) * (n * prices[i] - sum)]),
            n * n * n)

calculatePriceDistribution(allPrices) ==
    LET prices == SortAscending(Map(PriceOf, allPrices))
        n == Len(prices)
    IN  [min |-> prices[1],
         q25 |-> prices[(n \div 4) + 1],
         median |-> prices[(n \div 2) + 1],
         q75 |-> prices[((3 * n) \div 4) + 1],
         max |-> prices[n],
         standardDeviation |-> [sqrtOf |-> VarianceOf(prices)]]

calculatePriceVolatility(sortedPrices) ==
    LET n == Len(sortedPrices)
        changes == [i \in 1..(n - 1) |->
                      Abs(sortedPrices[i + 1].price - sortedPrices[i].price)]
    IN  IF n < 2 THEN Fin(0, 1)
        ELSE NumDiv(Fin(SeqSum(changes), n - 1),
                    Fin(SeqSum(Map(PriceOf, sortedPrices)), n))

calculateMonthlyTrend(allPrices) ==
    LET sortedPrices == SortByDate(allPrices)
        trend == calculatePriceTrend(sortedPrices)
    IN  [trend |-> trend,
         trendStrength |-> NumAbs(trend),
         trendDirection |->
            IF NumLess(Fin(0, 1), trend) THEN "increasing"
            ELSE IF NumLess(trend, Fin(0, 1)) THEN "decreasing"
            ELSE "stable",
         volatility |-> calculatePriceVolatility(sortedPrices)]

\* the object assigned to weekendAnalysis
WeekendObject(weekendPrices, weekdayPrices) ==
    LET avgWeekendPrice == MeanPrice(weekendPrices)
        avgWeekdayPrice == MeanPrice(weekdayPrices)
    IN  JsObject(
          [avgWeekendPrice |-> MathRound(avgWeekendPrice),
           avgWeekdayPrice |-> MathRound(avgWeekdayPrice),
           weekendPremium |->
              MathRound(NumScale(NumDiv(NumSub(avgWeekendPrice, avgWeekdayPrice),
                                        avgWeekdayPrice), 100, 1)),
           weekendDates |-> [i \in 1..Len(weekendPrices) |-> weekendPrices[i].date],
           weekdayDates |-> [i \in 1..Len(weekdayPrices) |-> weekdayPrices[i].date]])

\* mutant: the includeWeekendAnalysis flag is not consulted
WeekendAnalysisIgnoringFlag(allPrices, flag, zone) ==
    LET weekendPrices == SelectSeq(allPrices, LAMBDA p : isWeekend(p.date, zone))
        weekdayPrices == SelectSeq(allPrices, LAMBDA p : ~isWeekend(p.date, zone))
    IN  IF Len(weekendPrices) > 0 /\ Len(weekdayPrices) > 0
        THEN WeekendObject(weekendPrices, weekdayPrices)
        ELSE JsNull

\* the weekendAnalysis local of analyzeMonthlyFlightData
WeekendAnalysisOf(allPrices, flag, zone) ==
    LET weekendPrices == SelectSeq(allPrices, LAMBDA p : isWeekend(p.date, zone))
        weekdayPrices == SelectSeq(allPrices, LAMBDA p : ~isWeekend(p.date, zone))
    IN  IF flag /\ Len(weekendPrices) > 0 /\ Len(weekdayPrices) > 0
        THEN WeekendObject(weekendPrices, weekdayPrices)
        ELSE JsNull

\* monthlyResults.forEach: one price per result that has itineraries
AllPricesOf(monthlyResults) ==
    LET kept == SelectSeq(monthlyResults, LAMBDA r : Len(r.itineraries) > 0)
    IN  [i \in 1..Len(kept) |->
           [date |-> kept[i].date,
            price |-> MathMin(kept[i].itineraries),
            source |-> kept[i].source,
            cabinClass |-> kept[i].cabinClass]]

analyzeMonthlyFlightData(monthlyResults, flag, zone) ==
    IF Len(monthlyResults) = 0 THEN Threw("No monthly results to analyze")
    ELSE
      LET allPrices == AllPricesOf(monthlyResults)
      IN  IF Len(allPrices) = 0 THEN Threw("No valid prices found in monthly results")
          ELSE
            LET cheapest == CheapestOf(allPrices)
                mostExpensive == MostExpensiveOf(allPrices)
                averagePrice == MeanPrice(allPrices)
                priceRange == mostExpensive.price - cheapest.price
                weekendAnalysis == WeekendAnalysisOf(allPrices, flag, zone)
            IN  Returned("analyzeMonthlyFlightData",
                  [cheapestDate |-> cheapest.date,
                   cheapestPrice |-> cheapest.price,
                   cheapestSource |-> cheapest.source,
                   mostExpensiveDate |-> mostExpensive.date,
                   mostExpensivePrice |-> mostExpensive.price,
                   mostExpensiveSource |-> mostExpensive.source,
                   averagePrice |-> MathRound(averagePrice),
                   priceRange |-> priceRange,
                   totalDates |-> Len(allPrices),
                   weekendAnalysis |-> weekendAnalysis,
                   recommendations |->
                      generateMonthlyRecommendations(allPrices, cheapest, mostExpensive,
                                                     averagePrice, priceRange, weekendAnalysis),
                   priceDistribution |-> calculatePriceDistribution(allPrices),
                   trendAnalysis |-> calculateMonthlyTrend(allPrices)])

----------------------------------------------------------------------------
(* The collection loops *)

MultiDateImpls == {"FlightSearchHelper.searchMultipleDates", "handleSearchMultipleDates"}
MonthlyImpls == {"FlightSearchHelper.findBestMonthlyFlights", "handleFindBestMonthlyFlights"}
HandlerImpls == {"handleSearchMultipleDates", "handleFindBestMonthlyFlights"}

\* new Date(year, monthNum - 1, day) is local midnight; toISOString() prints its
\* UTC date, the day before when the host is east of UTC.
generateMonthDates(zone) ==
    [day \in 1..DaysInMonth |-> IF zone > 0 THEN day - 1 ELSE day]

NoFlightsForDates == <<"No flights found for any of the specified dates">>
NoFlightsForMonth ==
    <<"Monthly flight search failed: ", "No flights found for ", Month, " from ",
      Origin, " to ", Destination, " in ", CabinClass, " class">>
MonthlyFailed(msg) == <<"Monthly flight search failed: ", msg>>

TotalPairs == Len(dates) * Len(sources)
CurrentDate == dates[(idx \div Len(sources)) + 1]
CurrentSource == sources[(idx % Len(sources)) + 1]
\* if (source === "skyscanner") skyscannerService else googleFlightsService
ServiceFor(source) == IF source = "skyscanner" THEN "skyscannerService"
                      ELSE "googleFlightsService"

Init ==
    /\ impl \in MultiDateImpls \cup MonthlyImpls
    /\ tz \in TimeZones
    /\ includeWeekendAnalysis \in (IF impl = "handleFindBestMonthlyFlights"
                                    THEN BOOLEAN ELSE {TRUE})
    /\ dates \in (IF impl \in MonthlyImpls THEN {generateMonthDates(tz)}
                   ELSE BoundedSeq(Dates, MaxDates))
    /\ sources \in SourceLists
    /\ idx = 0
    /\ allResults = <<>>
    /\ calls = <<>>
    /\ pc = "searching"
    /\ error = <<>>
    /\ analysis = NotCalled
    /\ NoConnector

\* what the loop body pushes for a response with the given itineraries
Pushed(itineraries) ==
    IF impl \in MonthlyImpls
    THEN IF Len(itineraries) > 0
         THEN <<[date |-> CurrentDate, source |-> CurrentSource,
                 itineraries |-> itineraries, cabinClass |-> CabinClass]>>
         ELSE <<>>
    ELSE IF impl = "FlightSearchHelper.searchMultipleDates"
    THEN IF Len(itineraries) > 0
         THEN <<[date |-> CurrentDate, itineraries |-> itineraries]>>
         ELSE <<>>
    ELSE <<[date |-> CurrentDate, itineraries |-> itineraries]>>

\* one iteration of the loops whose searchFlights call resolves
SearchReturns ==
    /\ pc = "searching"
    /\ idx < TotalPairs
    /\ \E itineraries \in ConnectorItins :
          /\ calls' = Append(calls, [date |-> CurrentDate, source |-> CurrentSource,
                                     service |-> ServiceFor(CurrentSource),
                                     threw |-> FALSE, itineraries |-> itineraries])
          /\ allResults' = allResults \o Pushed(itineraries)
    /\ idx' = idx + 1
    /\ UNCHANGED <<connectorVars, impl, tz, includeWeekendAnalysis, dates, sources, pc, error, analysis>>

\* mutant: no try/catch around the call, the rejection ends the run
SearchThrowsAborts ==
    /\ pc = "searching"
    /\ idx < TotalPairs
    /\ calls' = Append(calls, [date |-> CurrentDate, source |-> CurrentSource,
                               service |-> ServiceFor(CurrentSource),
                               threw |-> TRUE, itineraries |-> <<>>])
    /\ pc' = "threw"
    /\ error' = <<"searchFlights rejected">>
    /\ UNCHANGED <<connectorVars, impl, tz, includeWeekendAnalysis, dates, sources, idx, allResults,
                   analysis>>

\* mutant: a rejected call is tried again
SearchThrowsRetries ==
    /\ pc = "searching"
    /\ idx < TotalPairs
    /\ calls' = Append(calls, [date |-> CurrentDate, source |-> CurrentSource,
                               service |-> ServiceFor(CurrentSource),
                               threw |-> TRUE, itineraries |-> <<>>])
    /\ UNCHANGED <<connectorVars, impl, tz, includeWeekendAnalysis, dates, sources, idx, allResults, pc,
                   error, analysis>>

\* one iteration whose searchFlights call rejects: the catch logs a warning
SearchThrows ==
    /\ pc = "searching"
    /\ idx < TotalPairs
    /\ calls' = Append(calls, [date |-> CurrentDate, source |-> CurrentSource,
                               service |-> ServiceFor(CurrentSource),
                               threw |-> TRUE, itineraries |-> <<>>])
    /\ idx' = idx + 1
    /\ UNCHANGED <<connectorVars, impl, tz, includeWeekendAnalysis, dates, sources, allResults, pc,
                   error, analysis>>

\* after the loops of the two helpers
HelperFinish ==
    /\ pc = "searching"
    /\ idx = TotalPairs
    /\ impl \notin HandlerImpls
    /\ IF Len(allResults) = 0
       THEN /\ pc' = "threw"
            /\ error' = (IF impl \in MonthlyImpls THEN NoFlightsForMonth
                         ELSE NoFlightsForDates)
       ELSE /\ pc' = "returned"
            /\ error' = error
    /\ UNCHANGED <<connectorVars, impl, tz, includeWeekendAnalysis, dates, sources, idx, allResults,
                   calls, analysis>>

\* after the loops of handleSearchMultipleDates
HandleSearchMultipleDatesFinish ==
    /\ pc = "searching"
    /\ idx = TotalPairs
    /\ impl = "handleSearchMultipleDates"
    /\ IF Len(allResults) = 0
       THEN /\ pc' = "threw"
            /\ error' = NoFlightsForDates
            /\ analysis' = analysis
       ELSE /\ pc' = "returned"
            /\ error' = error
            /\ analysis' = analyzePricesAcrossDates(allResults, tz)
    /\ UNCHANGED <<connectorVars, impl, tz, includeWeekendAnalysis, dates, sources, idx, allResults, calls>>

\* after the loops of handleFindBestMonthlyFlights
HandleFindBestMonthlyFlightsFinish ==
    /\ pc = "searching"
    /\ idx = TotalPairs
    /\ impl = "handleFindBestMonthlyFlights"
    /\ IF Len(allResults) = 0
       THEN /\ pc' = "threw"
            /\ error' = NoFlightsForMonth
            /\ analysis' = analysis
       ELSE LET a == analyzeMonthlyFlightData(allResults, includeWeekendAnalysis, tz)
            IN  /\ analysis' = a
                /\ pc' = (IF a.status = "threw" THEN "threw" ELSE "returned")
                /\ error' = (IF a.status = "threw" THEN MonthlyFailed(a.message)
                             ELSE error)
    /\ UNCHANGED <<connectorVars, impl, tz, includeWeekendAnalysis, dates, sources, idx, allResults, calls>>

Next ==
    \/ SearchReturns
    \/ SearchThrows
    \/ HelperFinish
    \/ HandleSearchMultipleDatesFinish
    \/ HandleFindBestMonthlyFlightsFinish

Spec == Init /\ [][Next]_vars

----------------------------------------------------------------------------
(* The analyzer called directly *)

AnalyzerInputs ==
    BoundedSeq([date : Dates, source : SourceNames, itineraries : ItinLists,
                cabinClass : {CabinClass}], MaxLen)

InitAnalyzer ==
    /\ impl = "FlightAnalyzerService"
    /\ tz = 0
    /\ includeWeekendAnalysis = TRUE
    /\ dates = <<>>
    /\ sources = <<>>
    /\ idx = 0
    /\ allResults \in AnalyzerInputs
    /\ calls = <<>>
    /\ pc = "input"
    /\ error = <<>>
    /\ analysis = NotCalled
    /\ NoConnector

CallAnalyzePricesAcrossDates ==
    /\ pc = "input"
    /\ \E zone \in TimeZones :
          /\ tz' = zone
          /\ analysis' = analyzePricesAcrossDates(allResults, zone)
    /\ pc' = "analyzed"
    /\ UNCHANGED <<connectorVars, impl, includeWeekendAnalysis, dates, sources, idx, allResults, calls, error>>

CallAnalyzeMonthlyFlightData ==
    /\ pc = "input"
    /\ \E zone \in TimeZones, flag \in BOOLEAN :
          /\ tz' = zone
          /\ includeWeekendAnalysis' = flag
          /\ analysis' = analyzeMonthlyFlightData(allResults, flag, zone)
    /\ pc' = "analyzed"
    /\ UNCHANGED <<connectorVars, impl, dates, sources, idx, allResults, calls, error>>

NextAnalyzer ==
    \/ CallAnalyzePricesAcrossDates
    \/ CallAnalyzeMonthlyFlightData

SpecAnalyzer == InitAnalyzer /\ [][NextAnalyzer]_vars

----------------------------------------------------------------------------
(* RecommendationHelper *)

\* allResults.forEach: Math.min of every result's itineraries, by source
helperGroupPricesBySource(results) ==
    LET order == SourceOrder(results)
    IN  [i \in 1..Len(order) |->
           [source |-> order[i],
            prices |-> [j \in 1..Len(SelectSeq(results, LAMBDA r : r.source = order[i])) |->
                          [price |-> MathMin(SelectSeq(results,
                                        LAMBDA r : r.source = order[i])[j].itineraries)]]]]

\* ((avgSourcePrice - averagePrice) / averagePrice) * 100 for averagePrice >= 0
PriceDifference(avgSourcePrice, averagePrice) ==
    IF avgSourcePrice.k = "inf" THEN NumInf
    ELSE NumScale(NumDiv(NumSub(avgSourcePrice, averagePrice), averagePrice), 100, 1)

\* for (const [source, prices] of Object.entries(sourcePrices)), from entry i on
RECURSIVE SourceNotes(_, _, _)
SourceNotes(groups, i, averagePrice) ==
    IF i > Len(groups) THEN <<>>
    ELSE LET priceDifference ==
                 PriceDifference(MeanPrice(groups[i].prices), Lift(averagePrice))
         IN  (IF NumLess(priceDifference, Fin(-5, 1))
              THEN <<[tag |-> "betterSource", source |-> groups[i].source]>>
              ELSE IF NumLess(Fin(5, 1), priceDifference)
              THEN <<[tag |-> "higherSource", source |-> groups[i].source]>>
              ELSE <<>>)
             \o SourceNotes(groups, i + 1, averagePrice)

generateSourceRecommendations(results, averagePrice) ==
    SourceNotes(helperGroupPricesBySource(results), 1, averagePrice)

generateWeekendRecommendations(weekendAnalysis) ==
    IF weekendAnalysis.weekendPremium > 15 THEN <<"weekendExpensive">>
    ELSE IF weekendAnalysis.weekendPremium < -5 THEN <<"weekendCheaper">>
    ELSE <<>>

----------------------------------------------------------------------------
(* The analyzer and the helper on long runs and on threshold prices *)

MaxSeries == 21
ThresholdLen == 2
\* 82 is 80% of the mean of 82 and 123; 95 is 95% of the mean of 95 and 105
ThresholdPrices == {81, 82, 123, 95, 105}
\* a Sunday and a Monday
ThresholdDates == {1, 2}
SeriesSourceLists == {<<"skyscanner">>, <<"skyscanner", "google_flights">>}

\* the results of a run over the dates 1..n and the sources srcs in which every
\* call returned one itinerary: 400 for the k-th call, 100 for the others
SeriesOf(n, srcs, k) ==
    [i \in 1..(n * Len(srcs)) |->
        [date |-> ((i - 1) \div Len(srcs)) + 1,
         source |-> srcs[((i - 1) % Len(srcs)) + 1],
         itineraries |-> IF i = k THEN <<400>> ELSE <<100>>,
         cabinClass |-> CabinClass]]

SeriesInputs ==
    UNION {{SeriesOf(n, srcs, k) : k \in 0..(n * Len(srcs))} :
             n \in 0..MaxSeries, srcs \in SeriesSourceLists}

ThresholdInputs ==
    BoundedSeq([date : ThresholdDates, source : SourceNames,
                itineraries : {<<p>> : p \in ThresholdPrices},
                cabinClass : {CabinClass}], ThresholdLen)

InitThresholds ==
    /\ impl = "FlightAnalyzerService"
    /\ tz = 0
    /\ includeWeekendAnalysis = TRUE
    /\ dates = <<>>
    /\ sources = <<>>
    /\ idx = 0
    /\ allResults \in SeriesInputs \cup ThresholdInputs
    /\ calls = <<>>
    /\ pc = "input"
    /\ error = <<>>
    /\ analysis = NotCalled
    /\ NoConnector

\* generateWeekendRecommendations on the weekendAnalysis of a monthly analysis
CallGenerateWeekendRecommendations ==
    /\ pc = "input"
    /\ \E zone \in TimeZones :
          LET a == analyzeMonthlyFlightData(allResults, TRUE, zone)
          IN  /\ a.status = "ok"
              /\ a.value.weekendAnalysis.type = "object"
              /\ tz' = zone
              /\ analysis' = Returned("generateWeekendRecommendations",
                    [weekendAnalysis |-> a.value.weekendAnalysis,
                     recommendations |->
                        generateWeekendRecommendations(a.value.weekendAnalysis.value)])
    /\ pc' = "analyzed"
    /\ UNCHANGED <<connectorVars, impl, includeWeekendAnalysis, dates, sources, idx, allResults, calls, error>>

\* generateSourceRecommendations with the averagePrice of a monthly analysis
CallGenerateSourceRecommendations ==
    /\ pc = "input"
    /\ LET a == analyzeMonthlyFlightData(allResults, TRUE, tz)
       IN  /\ a.status = "ok"
           /\ analysis' = Returned("generateSourceRecommendations",
                 [averagePrice |-> a.value.averagePrice,
                  recommendations |->
                     generateSourceRecommendations(allResults, a.value.averagePrice)])
    /\ pc' = "analyzed"
    /\ UNCHANGED <<connectorVars, impl, tz, includeWeekendAnalysis, dates, sources, idx, allResults, calls,
                   error>>

NextThresholds ==
    \/ CallAnalyzePricesAcrossDates
    \/ CallAnalyzeMonthlyFlightData
    \/ CallGenerateWeekendRecommendations
    \/ CallGenerateSourceRecommendations

SpecThresholds == InitThresholds /\ [][NextThresholds]_vars

----------------------------------------------------------------------------
(* getBestPriceAcrossDates *)

MaxBestDates == 6

\* the SkyscannerService of the puppeteer/API connector, the earlier
\* SkyscannerService that serves generated itineraries, GoogleFlightsService
BestPriceImpls == {"SkyscannerService", "SkyscannerService (generated data)",
                   "GoogleFlightsService"}

\* dates[0] of an empty array
Undefined == -1

\* what this.searchFlights can resolve with: the generated-data service always
\* returns its five itineraries
SearchFlightsItins ==
    IF impl = "SkyscannerService (generated data)" THEN ConnectorItins \ {<<>>}
    ELSE ConnectorItins
SearchFlightsMayThrow == impl # "SkyscannerService (generated data)"

BestPriceSource == IF impl = "GoogleFlightsService" THEN "google_flights" ELSE "skyscanner"

\* let bestPrice = Infinity; let bestDate = dates[0];
ScrapingStart ==
    [status |-> "running", bestPrice |-> Infinity,
     bestDate |-> IF Len(dates) = 0 THEN Undefined ELSE dates[1]]

InitBestPrice ==
    /\ impl \in BestPriceImpls
    /\ tz = 0
    /\ includeWeekendAnalysis = TRUE
    /\ dates \in {[i \in 1..n |-> i] : n \in 0..MaxBestDates}
    /\ sources = <<>>
    /\ idx = 0
    /\ allResults = <<>>
    /\ calls = <<>>
    /\ pc \in (IF impl = "SkyscannerService" THEN {"api", "scraping"}
               ELSE IF impl = "GoogleFlightsService" THEN {"scraping"}
               ELSE {"loop"})
    /\ error = <<>>
    /\ analysis = ScrapingStart
    /\ NoConnector

\* the service whose searchFlights the current loop calls
BestPriceService ==
    IF pc = "api" THEN "SkyscannerAPIService.searchFlights"
    ELSE IF impl = "GoogleFlightsService" THEN "GoogleFlightsService.searchFlights"
    ELSE "SkyscannerService.searchFlights"

\* one iteration of for (const date of dates) whose search resolves: the loops
\* that push { date, price: minPrice }
ListSearchReturns ==
    /\ pc \in {"api", "loop"}
    /\ idx < Len(dates)
    /\ \E itineraries \in (IF pc = "api" THEN ConnectorItins ELSE SearchFlightsItins) :
          /\ calls' = Append(calls, [date |-> dates[idx + 1], source |-> BestPriceSource,
                                     service |-> BestPriceService,
                                     threw |-> FALSE, itineraries |-> itineraries])
          /\ allResults' = IF Len(itineraries) > 0
                           THEN Append(allResults, [date |-> dates[idx + 1],
                                                    price |-> MathMin(itineraries)])
                           ELSE allResults
    /\ idx' = idx + 1
    /\ UNCHANGED <<connectorVars, impl, tz, includeWeekendAnalysis, dates, sources, pc, error, analysis>>

\* one iteration whose search rejects: the catch logs a warning
ListSearchThrows ==
    /\ pc = "api" \/ (pc = "loop" /\ SearchFlightsMayThrow)
    /\ idx < Len(dates)
    /\ calls' = Append(calls, [date |-> dates[idx + 1], source |-> BestPriceSource,
                               service |-> BestPriceService,
                               threw |-> TRUE, itineraries |-> <<>>])
    /\ idx' = idx + 1
    /\ UNCHANGED <<connectorVars, impl, tz, includeWeekendAnalysis, dates, sources, allResults, pc, error,
                   analysis>>

\* after the loop of the generated-data service
SimpleFinish ==
    /\ pc = "loop"
    /\ idx = Len(dates)
    /\ IF Len(allResults) = 0
       THEN /\ pc' = "threw"
            /\ error' = NoFlightsForDates
            /\ analysis' = analysis
       ELSE /\ pc' = "returned"
            /\ error' = error
            /\ analysis' = Returned("getBestPriceAcrossDates",
                              [bestDate |-> CheapestOf(allResults).date,
                               bestPrice |-> CheapestOf(allResults).price,
                               allPrices |-> allResults])
    /\ UNCHANGED <<connectorVars, impl, tz, includeWeekendAnalysis, dates, sources, idx, allResults, calls>>

\* after the loop of SkyscannerAPIService.getBestPriceAcrossDates: its result is
\* returned, its "No results found for any date" is caught and scraping starts
ApiFinish ==
    /\ pc = "api"
    /\ idx = Len(dates)
    /\ IF Len(allResults) = 0
       THEN /\ pc' = "scraping"
            /\ idx' = 0
            /\ analysis' = ScrapingStart
       ELSE /\ pc' = "returned"
            /\ idx' = idx
            /\ analysis' = Returned("getBestPriceAcrossDates",
                              [bestDate |-> CheapestOf(allResults).date,
                               bestPrice |-> CheapestOf(allResults).price])
    /\ UNCHANGED <<connectorVars, impl, tz, includeWeekendAnalysis, dates, sources, allResults, calls, error>>

\* dates.slice(0, 5)
SlicedDates == SubSeq(dates, 1, IF Len(dates) < 5 THEN Len(dates) ELSE 5)

\* one iteration of the scraping loop whose search resolves
ScrapeSearchReturns ==
    /\ pc = "scraping"
    /\ idx < Len(SlicedDates)
    /\ \E itineraries \in SearchFlightsItins :
          /\ calls' = Append(calls, [date |-> SlicedDates[idx + 1], source |-> BestPriceSource,
                                     service |-> BestPriceService,
                                     threw |-> FALSE, itineraries |-> itineraries])
          /\ analysis' = IF Len(itineraries) > 0 /\ MathMin(itineraries) < analysis.bestPrice
                         THEN [analysis EXCEPT !.bestPrice = MathMin(itineraries),
                                               !.bestDate = SlicedDates[idx + 1]]
                         ELSE analysis
    /\ idx' = idx + 1
    /\ UNCHANGED <<connectorVars, impl, tz, includeWeekendAnalysis, dates, sources, allResults, pc, error>>

\* one iteration of the scraping loop whose search rejects: continue
ScrapeSearchThrows ==
    /\ pc = "scraping"
    /\ idx < Len(SlicedDates)
    /\ calls' = Append(calls, [date |-> SlicedDates[idx + 1], source |-> BestPriceSource,
                               service |-> BestPriceService,
                               threw |-> TRUE, itineraries |-> <<>>])
    /\ idx' = idx + 1
    /\ UNCHANGED <<connectorVars, impl, tz, includeWeekendAnalysis, dates, sources, allResults, pc, error,
                   analysis>>

\* const mockPrices = [...]
MockPrices ==
    IF impl = "GoogleFlightsService" THEN <<184, 198, 212, 225, 189>>
    ELSE <<224, 245, 198, 267, 189>>

\* mockPrices.indexOf(Math.min(...mockPrices)), counted from 1
BestIndex == CHOOSE i \in 1..Len(MockPrices) :
                /\ MockPrices[i] = MathMin(MockPrices)
                /\ \A j \in 1..(i - 1) : MockPrices[j] # MathMin(MockPrices)

\* the object the outer catch returns
MockBest ==
    [bestDate |-> IF BestIndex <= Len(dates) THEN dates[BestIndex]
                  ELSE IF Len(dates) > 0 THEN dates[1] ELSE Undefined,
     bestPrice |-> MockPrices[BestIndex]]

\* after the scraping loop: the error thrown for bestPrice === Infinity is
\* caught by the outer catch, which returns mock data
ScrapeFinish ==
    /\ pc = "scraping"
    /\ idx = Len(SlicedDates)
    /\ analysis' = Returned("getBestPriceAcrossDates",
                      IF analysis.bestPrice = Infinity THEN MockBest
                      ELSE [bestDate |-> analysis.bestDate,
                            bestPrice |-> analysis.bestPrice])
    /\ pc' = "returned"
    /\ UNCHANGED <<connectorVars, impl, tz, includeWeekendAnalysis, dates, sources, idx, allResults, calls,
                   error>>

NextBestPrice ==
    \/ ListSearchReturns
    \/ ListSearchThrows
    \/ SimpleFinish
    \/ ApiFinish
    \/ ScrapeSearchReturns
    \/ ScrapeSearchThrows
    \/ ScrapeFinish

SpecBestPrice == InitBestPrice /\ [][NextBestPrice]_vars

----------------------------------------------------------------------------
(* getTopFlightRecommendations *)

MaxTop == 6
TopCount == 5

TopItins == {<<>>, <<100>>, <<250, 400>>, <<400, 250>>}

\* the results of a run over the dates 1..Len(f) with alternating sources
TopResults(f) ==
    [i \in 1..Len(f) |->
        [date |-> i,
         source |-> IF i % 2 = 1 THEN "skyscanner" ELSE "google_flights",
         itineraries |-> f[i],
         cabinClass |-> CabinClass]]

\* itineraries.reduce((min, current) =>
\*     current.price.amount < min.price.amount ? current : min)
\* as the position of the itinerary it ends with
RECURSIVE ReduceCheapestItinerary(_, _, _)
ReduceCheapestItinerary(its, i, min) ==
    IF i > Len(its) THEN min
    ELSE ReduceCheapestItinerary(its, i + 1, IF its[i] < its[min] THEN i ELSE min)

\* itineraries.reduce((min, current) =>
\*     current.price.amount < min.price.amount ? current : current)
RECURSIVE ReduceCurrentItinerary(_, _, _)
ReduceCurrentItinerary(its, i, min) ==
    IF i > Len(its) THEN min
    ELSE ReduceCurrentItinerary(its, i + 1, IF its[i] < its[min] THEN i ELSE i)

\* the for loop that pushes { date, source, price, itinerary } for every result
\* with itineraries
RECURSIVE PushRecommendations(_, _)
PushRecommendations(results, helper) ==
    IF results = <<>> THEN <<>>
    ELSE LET result == results[Len(results)]
             its == result.itineraries
             cheapestItinerary == IF helper THEN ReduceCurrentItinerary(its, 2, 1)
                                  ELSE ReduceCheapestItinerary(its, 2, 1)
             rest == PushRecommendations(SubSeq(results, 1, Len(results) - 1), helper)
         IN  IF Len(its) > 0
             THEN Append(rest, [date |-> result.date, source |-> result.source,
                                price |-> its[cheapestItinerary],
                                itinerary |-> cheapestItinerary])
             ELSE rest

\* recommendations.sort((a, b) => a.price - b.price): stable
RECURSIVE InsertByPrice(_, _)
InsertByPrice(s, x) ==
    IF s = <<>> THEN <<x>>
    ELSE IF x.price < Head(s).price THEN <<x>> \o s
    ELSE <<Head(s)>> \o InsertByPrice(Tail(s), x)

RECURSIVE SortByPrice(_)
SortByPrice(s) ==
    IF s = <<>> THEN <<>>
    ELSE InsertByPrice(SortByPrice(SubSeq(s, 1, Len(s) - 1)), s[Len(s)])

\* .slice(0, 5)
SliceTop(s) == SubSeq(s, 1, IF Len(s) < TopCount THEN Len(s) ELSE TopCount)

\* FlightFinderServer.getTopFlightRecommendations
getTopFlightRecommendations(results) ==
    SliceTop(SortByPrice(PushRecommendations(results, FALSE)))

\* RecommendationHelper.getTopFlightRecommendations
helperGetTopFlightRecommendations(results) ==
    SliceTop(SortByPrice(PushRecommendations(results, TRUE)))

InitTop ==
    /\ impl \in {"FlightFinderServer", "RecommendationHelper"}
    /\ tz = 0
    /\ includeWeekendAnalysis = TRUE
    /\ dates = <<>>
    /\ sources = <<>>
    /\ idx = 0
    /\ allResults \in {TopResults(f) : f \in UNION {[1..n -> TopItins] : n \in 0..MaxTop}}
    /\ calls = <<>>
    /\ pc = "input"
    /\ error = <<>>
    /\ analysis = NotCalled
    /\ NoConnector

CallGetTopFlightRecommendations ==
    /\ pc = "input"
    /\ impl = "FlightFinderServer"
    /\ analysis' = Returned("getTopFlightRecommendations",
                      getTopFlightRecommendations(allResults))
    /\ pc' = "analyzed"
    /\ UNCHANGED <<connectorVars, impl, tz, includeWeekendAnalysis, dates, sources, idx, allResults, calls,
                   error>>

CallHelperGetTopFlightRecommendations ==
    /\ pc = "input"
    /\ impl = "RecommendationHelper"
    /\ analysis' = Returned("getTopFlightRecommendations",
                      helperGetTopFlightRecommendations(allResults))
    /\ pc' = "analyzed"
    /\ UNCHANGED <<connectorVars, impl, tz, includeWeekendAnalysis, dates, sources, idx, allResults, calls,
                   error>>

NextTop ==
    \/ CallGetTopFlightRecommendations
    \/ CallHelperGetTopFlightRecommendations

SpecTop == InitTop /\ [][NextTop]_vars

----------------------------------------------------------------------------
(* The connectors: SkyscannerService.searchFlights and                     *)
(* GoogleFlightsService.searchFlights on one service instance.  Every      *)
(* await is a point where another call, a timer or close() can run.        *)
(* request.departureDate is a valid date, so generateMockItineraries       *)
(* returns.                                                                *)

MaxConcurrent == 2
MaxCalls == 3
MaxTicks == 3
MaxCloses == 1

MIN_REQUEST_INTERVAL == 3000

Procs == 1..MaxConcurrent

\* the state of the collection runs and of the API call, which the scraping
\* searchFlights does not touch
runVars == <<impl, tz, includeWeekendAnalysis, dates, sources, idx, allResults, calls, pc,
             error, analysis, attempts, polls>>

\* itineraries an API response converts to, itineraries made from scraped prices
ApiItins == {<<>>, <<100>>}
ScrapedItins == <<100>>

\* generateMockItineraries: basePrices
MockItineraries ==
    IF impl = "GoogleFlightsService" THEN <<238, 282, 285, 308, 343>>
    ELSE <<295, 296, 356, 389, 450>>

NotStarted ==
    [pc |-> "idle", wakeAt |-> 0, browser |-> 0, page |-> "none",
     strategy |-> "none", itineraries |-> <<>>]

InitConnector ==
    /\ impl \in {"SkyscannerService", "GoogleFlightsService"}
    /\ tz = 0
    /\ includeWeekendAnalysis = TRUE
    /\ dates = <<>>
    /\ sources = <<>>
    /\ idx = 0
    /\ allResults = <<>>
    /\ calls = <<>>
    /\ pc = "connector"
    /\ error = <<>>
    /\ analysis = NotCalled
    /\ apiKey \in BOOLEAN
    /\ browser = 0
    /\ openBrowsers = {}
    /\ launches = 0
    /\ closing = FALSE
    /\ closes = 0
    /\ lastRequestTime = 0
    /\ now = MIN_REQUEST_INTERVAL
    /\ starts = <<>>
    /\ proc = [c \in Procs |-> NotStarted]
    /\ started = 0
    /\ attempts = 0
    /\ polls = <<>>

\* where the scraping fallback begins
ScrapeEntry == IF impl = "SkyscannerService" THEN "enforceRateLimit" ELSE "getBrowser"

\* the call returns the response of the given strategy
Return(c, strategy, itineraries) ==
    proc' = [proc EXCEPT ![c].pc = "done", ![c].strategy = strategy,
                         ![c].itineraries = itineraries]

\* the same after await page.close()
CloseAndReturn(c, strategy, itineraries) ==
    proc' = [proc EXCEPT ![c].pc = "done", ![c].page = "closed",
                         ![c].strategy = strategy, ![c].itineraries = itineraries]

\* searchFlights(request) is called
Call(c) ==
    /\ proc[c].pc \in {"idle", "done"}
    /\ started < MaxCalls
    /\ started' = started + 1
    /\ proc' = [proc EXCEPT ![c] = [NotStarted EXCEPT
                   !.pc = IF apiKey THEN "api" ELSE ScrapeEntry]]
    /\ UNCHANGED <<runVars, apiKey, browser, openBrowsers, launches, closing, closes,
                   lastRequestTime, now, starts>>

\* return await this.apiService.searchFlights(request)
ApiReturns(c) ==
    /\ proc[c].pc = "api"
    /\ \E itineraries \in ApiItins : Return(c, "api", itineraries)
    /\ UNCHANGED <<runVars, apiKey, browser, openBrowsers, launches, closing, closes,
                   lastRequestTime, now, starts, started>>

\* the API call rejects: the catch warns and scraping begins
ApiThrows(c) ==
    /\ proc[c].pc = "api"
    /\ proc' = [proc EXCEPT ![c].pc = ScrapeEntry]
    /\ UNCHANGED <<runVars, apiKey, browser, openBrowsers, launches, closing, closes,
                   lastRequestTime, now, starts, started>>

\* enforceRateLimit up to its await, or to its end when there is no delay
EnforceRateLimit(c) ==
    /\ proc[c].pc = "enforceRateLimit"
    /\ LET timeSinceLastRequest == now - lastRequestTime
       IN  IF timeSinceLastRequest < MIN_REQUEST_INTERVAL
           THEN /\ proc' = [proc EXCEPT ![c].pc = "sleeping",
                               ![c].wakeAt = now + (MIN_REQUEST_INTERVAL - timeSinceLastRequest)]
                /\ UNCHANGED <<lastRequestTime, starts>>
           ELSE /\ lastRequestTime' = now
                /\ starts' = Append(starts, now)
                /\ proc' = [proc EXCEPT ![c].pc = "getBrowser"]
    /\ UNCHANGED <<runVars, apiKey, browser, openBrowsers, launches, closing, closes, now,
                   started>>

\* the timer fires: this.lastRequestTime = Date.now()
RateLimitWake(c) ==
    /\ proc[c].pc = "sleeping"
    /\ now >= proc[c].wakeAt
    /\ lastRequestTime' = now
    /\ starts' = Append(starts, now)
    /\ proc' = [proc EXCEPT ![c].pc = "getBrowser"]
    /\ UNCHANGED <<runVars, apiKey, browser, openBrowsers, launches, closing, closes, now,
                   started>>

\* getBrowser up to await puppeteer.launch, or to its return
GetBrowser(c) ==
    /\ proc[c].pc = "getBrowser"
    /\ proc' = IF browser = 0 THEN [proc EXCEPT ![c].pc = "launching"]
               ELSE [proc EXCEPT ![c].pc = "newPage", ![c].browser = browser]
    /\ UNCHANGED <<runVars, apiKey, browser, openBrowsers, launches, closing, closes,
                   lastRequestTime, now, starts, started>>

\* puppeteer.launch resolves: this.browser = <the new browser>; return this.browser
LaunchResolves(c) ==
    /\ proc[c].pc = "launching"
    /\ launches' = launches + 1
    /\ browser' = launches + 1
    /\ openBrowsers' = openBrowsers \cup {launches + 1}
    /\ proc' = [proc EXCEPT ![c].pc = "newPage", ![c].browser = launches + 1]
    /\ UNCHANGED <<runVars, apiKey, closing, closes, lastRequestTime, now, starts, started>>

\* puppeteer.launch rejects: the catch returns mock data
LaunchRejects(c) ==
    /\ proc[c].pc = "launching"
    /\ Return(c, "mock", MockItineraries)
    /\ UNCHANGED <<runVars, apiKey, browser, openBrowsers, launches, closing, closes,
                   lastRequestTime, now, starts, started>>

\* await browser.newPage(): rejects when the browser has been closed
NewPage(c) ==
    /\ proc[c].pc = "newPage"
    /\ IF proc[c].browser \in openBrowsers
       THEN proc' = [proc EXCEPT ![c].pc = "scraping", ![c].page = "open"]
       ELSE Return(c, "mock", MockItineraries)
    /\ UNCHANGED <<runVars, apiKey, browser, openBrowsers, launches, closing, closes,
                   lastRequestTime, now, starts, started>>

\* the page of the call can still be used
PageUsable(c) == proc[c].pc = "scraping" /\ proc[c].browser \in openBrowsers

\* SkyscannerService: a strategy found price elements
PriceDataFound(c) ==
    /\ impl = "SkyscannerService"
    /\ PageUsable(c)
    /\ Return(c, "scraping", ScrapedItins)
    /\ UNCHANGED <<runVars, apiKey, browser, openBrowsers, launches, closing, closes,
                   lastRequestTime, now, starts, started>>

\* SkyscannerService: no price elements, the page content mentions flights:
\* return await this.extractFlightsFromPageContent(page, request)
PageContentExtraction(c) ==
    /\ impl = "SkyscannerService"
    /\ PageUsable(c)
    /\ \/ Return(c, "scraping", ScrapedItins)
       \/ Return(c, "mock", MockItineraries)
    /\ UNCHANGED <<runVars, apiKey, browser, openBrowsers, launches, closing, closes,
                   lastRequestTime, now, starts, started>>

\* SkyscannerService: all extraction methods failed
AllExtractionFailed(c) ==
    /\ impl = "SkyscannerService"
    /\ PageUsable(c)
    /\ CloseAndReturn(c, "mock", MockItineraries)
    /\ UNCHANGED <<runVars, apiKey, browser, openBrowsers, launches, closing, closes,
                   lastRequestTime, now, starts, started>>

\* SkyscannerService: an awaited page operation rejects; the outer catch
\* returns mock data
ScrapingThrows(c) ==
    /\ impl = "SkyscannerService"
    /\ proc[c].pc = "scraping"
    /\ Return(c, "mock", MockItineraries)
    /\ UNCHANGED <<runVars, apiKey, browser, openBrowsers, launches, closing, closes,
                   lastRequestTime, now, starts, started>>

\* GoogleFlightsService: a selector matched; the cards are parsed with the
\* first selector and those with a price are returned
FlightCardsFound(c) ==
    /\ impl = "GoogleFlightsService"
    /\ PageUsable(c)
    /\ \E itineraries \in {<<>>, ScrapedItins} : CloseAndReturn(c, "scraping", itineraries)
    /\ UNCHANGED <<runVars, apiKey, browser, openBrowsers, launches, closing, closes,
                   lastRequestTime, now, starts, started>>

\* GoogleFlightsService: no selector matched: advanced scraping, page source,
\* page content
NoFlightCards(c) ==
    /\ impl = "GoogleFlightsService"
    /\ PageUsable(c)
    /\ \/ CloseAndReturn(c, "scraping", ScrapedItins)
       \/ CloseAndReturn(c, "mock", MockItineraries)
    /\ UNCHANGED <<runVars, apiKey, browser, openBrowsers, launches, closing, closes,
                   lastRequestTime, now, starts, started>>

\* GoogleFlightsService: an awaited page operation rejects; the catch extracts
\* from the page content, or falls back to mock data, and closes the page
GoogleScrapingThrows(c) ==
    /\ impl = "GoogleFlightsService"
    /\ proc[c].pc = "scraping"
    /\ \/ PageUsable(c) /\ CloseAndReturn(c, "scraping", ScrapedItins)
       \/ CloseAndReturn(c, "mock", MockItineraries)
    /\ UNCHANGED <<runVars, apiKey, browser, openBrowsers, launches, closing, closes,
                   lastRequestTime, now, starts, started>>

\* close() up to await this.browser.close()
CloseBegin ==
    /\ ~closing
    /\ closes < MaxCloses
    /\ browser # 0
    /\ closing' = TRUE
    /\ closes' = closes + 1
    /\ openBrowsers' = openBrowsers \ {browser}
    /\ UNCHANGED <<runVars, apiKey, browser, launches, lastRequestTime, now, starts, proc,
                   started>>

\* this.browser = null
CloseEnd ==
    /\ closing
    /\ closing' = FALSE
    /\ browser' = 0
    /\ UNCHANGED <<runVars, apiKey, openBrowsers, launches, closes, lastRequestTime, now,
                   starts, proc, started>>

\* a second of Date.now() passes
Tick ==
    /\ now < MIN_REQUEST_INTERVAL + MaxTicks * 1000
    /\ now' = now + 1000
    /\ UNCHANGED <<runVars, apiKey, browser, openBrowsers, launches, closing, closes,
                   lastRequestTime, starts, proc, started>>

NextConnector ==
    \/ \E c \in Procs : Call(c)
    \/ \E c \in Procs : ApiReturns(c)
    \/ \E c \in Procs : ApiThrows(c)
    \/ \E c \in Procs : EnforceRateLimit(c)
    \/ \E c \in Procs : RateLimitWake(c)
    \/ \E c \in Procs : GetBrowser(c)
    \/ \E c \in Procs : LaunchResolves(c)
    \/ \E c \in Procs : LaunchRejects(c)
    \/ \E c \in Procs : NewPage(c)
    \/ \E c \in Procs : PriceDataFound(c)
    \/ \E c \in Procs : PageContentExtraction(c)
    \/ \E c \in Procs : AllExtractionFailed(c)
    \/ \E c \in Procs : ScrapingThrows(c)
    \/ \E c \in Procs : FlightCardsFound(c)
    \/ \E c \in Procs : NoFlightCards(c)
    \/ \E c \in Procs : GoogleScrapingThrows(c)
    \/ CloseBegin
    \/ CloseEnd
    \/ Tick

SpecConnector == InitConnector /\ [][NextConnector]_vars

----------------------------------------------------------------------------
(* The two multi-date loops as functions of the outcomes of the calls *)

AsEntry(call) == [date |-> call.date, itineraries |-> call.itineraries]

\* FlightSearchHelper.searchMultipleDates: if (results.itineraries.length > 0) push
HelperCollects(outcomes) ==
    Map(AsEntry, SelectSeq(outcomes, LAMBDA o : ~o.threw /\ Len(o.itineraries) > 0))

\* handleSearchMultipleDates: push
HandlerCollects(outcomes) ==
    Map(AsEntry, SelectSeq(outcomes, LAMBDA o : ~o.threw))

----------------------------------------------------------------------------
(* SkyscannerAPIService.searchFlights: the search session and its polls *)

maxAttempts == 10

\* what one poll can come to: the fetch rejects, or it resolves with a
\* response that is ok or not, whose body has a status and may have content
\* with the price amounts of its itineraries (Undefined: no pricing option)
PollOutcomes ==
    {[kind |-> "rejected", ok |-> FALSE, httpStatus |-> 0, status |-> "", hasContent |-> FALSE,
      amounts |-> <<>>]}
    \cup {[kind |-> "response", ok |-> FALSE, httpStatus |-> h, status |-> "",
           hasContent |-> FALSE, amounts |-> <<>>] : h \in {429, 500}}
    \cup {[kind |-> "response", ok |-> TRUE, httpStatus |-> 200, status |-> st,
           hasContent |-> FALSE, amounts |-> <<>>] :
             st \in {"RESULT_STATUS_INCOMPLETE", "RESULT_STATUS_FAILED",
                     "RESULT_STATUS_COMPLETE"}}
    \cup {[kind |-> "response", ok |-> TRUE, httpStatus |-> 200,
           status |-> "RESULT_STATUS_COMPLETE", hasContent |-> TRUE, amounts |-> a] :
             a \in {<<>>, <<100>>, <<Undefined>>}}

\* amount: itin.pricingOptions?.[0]?.price?.amount || 0
AmountOrZero(a) == IF a = Undefined \/ a = 0 THEN 0 ELSE a

\* the itineraries of convertAPIResponseToFlightSearchResponse(pollData, request)
convertAPIResponseToFlightSearchResponse(pollData) ==
    IF pollData.hasContent THEN Map(AmountOrZero, pollData.amounts) ELSE <<>>

PollFailed(httpStatus) == <<"Skyscanner API poll failed", httpStatus>>
TimedOut == <<"Skyscanner API search timed out">>
FetchRejected == <<"fetch rejected">>

InitApi ==
    /\ impl = "SkyscannerAPIService"
    /\ tz = 0
    /\ includeWeekendAnalysis = TRUE
    /\ dates = <<>>
    /\ sources = <<>>
    /\ idx = 0
    /\ allResults = <<>>
    /\ calls = <<>>
    /\ pc = "create"
    /\ error = <<>>
    /\ analysis = NotCalled
    /\ apiKey \in BOOLEAN
    /\ browser = 0
    /\ openBrowsers = {}
    /\ launches = 0
    /\ closing = FALSE
    /\ closes = 0
    /\ lastRequestTime = 0
    /\ now = 0
    /\ starts = <<>>
    /\ proc = <<>>
    /\ started = 0
    /\ attempts = 0
    /\ polls = <<>>

apiVars == <<impl, tz, includeWeekendAnalysis, dates, sources, idx, allResults, calls,
             apiKey, browser, openBrowsers, launches, closing, closes, lastRequestTime, now,
             starts, proc, started>>

\* the key test and the create request: the session exists, or the call throws
CreateSession ==
    /\ pc = "create"
    /\ IF ~apiKey
       THEN /\ pc' = "threw"
            /\ error' = <<"Skyscanner API key not configured">>
       ELSE \/ /\ pc' = "polling"
               /\ error' = error
            \/ /\ pc' = "threw"
               /\ error' \in {<<"Skyscanner API create failed">>, FetchRejected}
    /\ UNCHANGED <<apiVars, analysis, attempts, polls>>

\* mutant: the iteration does not count the attempt
AfterPollUncounted(outcome) ==
    IF outcome.kind = "rejected"
    THEN /\ pc' = "threw"
         /\ error' = FetchRejected
         /\ UNCHANGED <<analysis, attempts>>
    ELSE IF ~outcome.ok
    THEN /\ pc' = "threw"
         /\ error' = PollFailed(outcome.httpStatus)
         /\ UNCHANGED <<analysis, attempts>>
    ELSE IF outcome.status = "RESULT_STATUS_COMPLETE"
    THEN /\ pc' = "returned"
         /\ analysis' = Returned("searchFlights",
                           convertAPIResponseToFlightSearchResponse(outcome))
         /\ UNCHANGED <<error, attempts>>
    ELSE UNCHANGED <<pc, error, analysis, attempts>>

\* what an iteration does with its poll
AfterPoll(outcome) ==
    IF outcome.kind = "rejected"
    THEN /\ pc' = "threw"
         /\ error' = FetchRejected
         /\ UNCHANGED <<analysis, attempts>>
    ELSE IF ~outcome.ok
    THEN /\ pc' = "threw"
         /\ error' = PollFailed(outcome.httpStatus)
         /\ UNCHANGED <<analysis, attempts>>
    ELSE IF outcome.status = "RESULT_STATUS_COMPLETE"
    THEN /\ pc' = "returned"
         /\ analysis' = Returned("searchFlights",
                           convertAPIResponseToFlightSearchResponse(outcome))
         /\ UNCHANGED <<error, attempts>>
    ELSE /\ attempts' = attempts + 1
         /\ UNCHANGED <<pc, error, analysis>>

\* one iteration of while (attempts < maxAttempts)
Poll ==
    /\ pc = "polling"
    /\ attempts < maxAttempts
    /\ \E outcome \in PollOutcomes :
          /\ polls' = Append(polls, outcome)
          /\ AfterPoll(outcome)
    /\ UNCHANGED apiVars

\* the loop ends: throw new Error("Skyscanner API search timed out")
PollTimesOut ==
    /\ pc = "polling"
    /\ attempts >= maxAttempts
    /\ pc' = "threw"
    /\ error' = TimedOut
    /\ UNCHANGED <<apiVars, analysis, attempts, polls>>

NextApi ==
    \/ CreateSession
    \/ Poll
    \/ PollTimesOut

SpecApi == InitApi /\ [][NextApi]_vars

----------------------------------------------------------------------------
(* Claims about the collection loops *)

Finished == pc \in {"returned", "threw"}

\* the calls that resolved with at least one itinerary
Yielding == SelectSeq(calls, LAMBDA c : ~c.threw /\ Len(c.itineraries) > 0)
\* the collected entries that carry at least one itinerary
NonEmptyResults == SelectSeq(allResults, LAMBDA r : Len(r.itineraries) > 0)

\* C1: a connector call that throws never aborts a collection run: when the run
\* has finished, every (date, source) pair of the request was invoked, in loop
\* order, and every quote list obtained from a pair is in the result.
C1_ThrowNeverAborts ==
    Finished =>
        /\ Len(calls) = TotalPairs
        /\ \A k \in 1..Len(calls) :
              /\ calls[k].date = dates[((k - 1) \div Len(sources)) + 1]
              /\ calls[k].source = sources[((k - 1) % Len(sources)) + 1]
        /\ Len(NonEmptyResults) = Len(Yielding)
        /\ \A j \in 1..Len(Yielding) :
              /\ NonEmptyResults[j].date = Yielding[j].date
              /\ NonEmptyResults[j].itineraries = Yielding[j].itineraries
              /\ impl \in MonthlyImpls => NonEmptyResults[j].source = Yielding[j].source

\* a finished run in which a call threw between two calls that yielded quotes
C1_Witness ==
    /\ Finished
    /\ \E a, b, c \in 1..Len(calls) :
          /\ a < b /\ b < c
          /\ ~calls[a].threw /\ Len(calls[a].itineraries) > 0
          /\ calls[b].threw
          /\ ~calls[c].threw /\ Len(calls[c].itineraries) > 0
    /\ Len(NonEmptyResults) >= 2

\* C2: a collection run succeeds iff some pair yielded at least one itinerary;
\* otherwise it fails with the no-data error, and no successful run holds an
\* entry with zero itineraries.
C2_SucceedsIffSomeQuote ==
    Finished =>
        /\ (pc = "returned") <=> (Len(Yielding) > 0)
        /\ pc = "threw" => error \in {NoFlightsForDates, NoFlightsForMonth}
        /\ pc = "returned" => \A j \in 1..Len(allResults) :
                                  Len(allResults[j].itineraries) > 0

----------------------------------------------------------------------------
(* Claims about the analyzer *)

SetMin(S) == CHOOSE x \in S : \A y \in S : x <= y
SetMax(S) == CHOOSE x \in S : \A y \in S : x >= y
Range(s) == {s[i] : i \in 1..Len(s)}

AnalyzedOk == pc = "analyzed" /\ analysis.status = "ok"
AcrossOk == AnalyzedOk /\ analysis.fn = "analyzePricesAcrossDates"
MonthlyOk == AnalyzedOk /\ analysis.fn = "analyzeMonthlyFlightData"

\* the number of quotes (itineraries) of the input
TotalQuotes == SeqSum([i \in 1..Len(allResults) |-> Len(allResults[i].itineraries)])
EveryResultHasQuotes == \A i \in 1..Len(allResults) : Len(allResults[i].itineraries) > 0
InputDates == {allResults[i].date : i \in 1..Len(allResults)}
OneResultPerDate == Cardinality(InputDates) = Len(allResults)
\* no (date, source) pair occurs twice, as in the result of a collection run
OneResultPerPair ==
    \A i, j \in 1..Len(allResults) :
        (allResults[i].date = allResults[j].date
            /\ allResults[i].source = allResults[j].source) => i = j

\* the lowest price quoted for date d by any result of the input
PerDateMinimum(d) ==
    SetMin(UNION {Range(allResults[i].itineraries) :
                    i \in {j \in 1..Len(allResults) : allResults[j].date = d}})
PerDateMinima == {PerDateMinimum(d) : d \in InputDates}
SumOfPerDateMinima == SeqSum([d \in 1..MaxDate |->
                                IF d \in InputDates THEN PerDateMinimum(d) ELSE 0])

\* avg is sum / n rounded to the nearest integer
IsRoundedMean(avg, sum, n) == 2 * sum - n < 2 * n * avg /\ 2 * n * avg <= 2 * sum + n

\* C3: analysing an empty input fails: no statistics are produced from zero
\* quotes, by either analysis function.
C3_NoStatisticsFromZeroQuotes ==
    (pc = "analyzed" /\ TotalQuotes = 0) => analysis.status = "threw"

\* C4: the quotes of one date are reduced to their minimum before extremes,
\* average and range are computed.
C4_PerDateMinimumReduction ==
    (AnalyzedOk /\ EveryResultHasQuotes /\ OneResultPerPair) =>
        LET v == analysis.value
        IN  /\ v.cheapestPrice = SetMin(PerDateMinima)
            /\ PerDateMinimum(v.cheapestDate) = v.cheapestPrice
            /\ v.mostExpensivePrice = SetMax(PerDateMinima)
            /\ PerDateMinimum(v.mostExpensiveDate) = v.mostExpensivePrice
            /\ IsRoundedMean(v.averagePrice, SumOfPerDateMinima, Cardinality(InputDates))
            /\ v.priceRange = SetMax(PerDateMinima) - SetMin(PerDateMinima)

\* C5: with one result per date, each with an itinerary, analyzePricesAcrossDates
\* returns the minimum and the maximum of the per-date lows with dates attaining
\* them, their mean rounded to the nearest integer, their difference, and a
\* recommendation whenever the cheapest price is below 80% of the mean.
C5_AcrossDatesStatistics ==
    (AcrossOk /\ OneResultPerDate /\ EveryResultHasQuotes) =>
        LET v == analysis.value
            n == Len(allResults)
        IN  /\ v.cheapestPrice = SetMin(PerDateMinima)
            /\ v.cheapestDate \in InputDates
            /\ PerDateMinimum(v.cheapestDate) = v.cheapestPrice
            /\ v.mostExpensivePrice = SetMax(PerDateMinima)
            /\ v.mostExpensiveDate \in InputDates
            /\ PerDateMinimum(v.mostExpensiveDate) = v.mostExpensivePrice
            /\ IsRoundedMean(v.averagePrice, SumOfPerDateMinima, n)
            /\ v.priceRange = v.mostExpensivePrice - v.cheapestPrice
            /\ 5 * n * v.cheapestPrice < 4 * SumOfPerDateMinima
                  => Len(v.recommendations) > 0

\* the scenario 2024-12-01..03 with lows 100, 400, 250
C5_Witness ==
    /\ AcrossOk
    /\ Len(allResults) = 3
    /\ \A i \in 1..3 : allResults[i].date = i
    /\ allResults[1].itineraries = <<100>>
    /\ allResults[2].itineraries = <<400>>
    /\ allResults[3].itineraries = <<400, 250>>
    /\ analysis.value.cheapestDate = 1 /\ analysis.value.cheapestPrice = 100
    /\ analysis.value.mostExpensiveDate = 2 /\ analysis.value.mostExpensivePrice = 400
    /\ analysis.value.averagePrice = 250 /\ analysis.value.priceRange = 300
    /\ Len(analysis.value.recommendations) > 0

\* the permutations of 1..n, and a sequence rearranged by one
Rearrangements(n) == {p \in [1..n -> 1..n] : \A i, j \in 1..n : p[i] = p[j] => i = j}
Permute(s, p) == [i \in 1..Len(s) |-> s[p[i]]]
\* p leaves the entries of one date in their relative order
KeepsSameDateOrder(s, p) ==
    \A i, j \in 1..Len(s) : (i < j /\ s[p[i]].date = s[p[j]].date) => p[i] < p[j]

\* the monthly analysis of the input rearranged by p
Rearranged(p) ==
    analyzeMonthlyFlightData(Permute(allResults, p), includeWeekendAnalysis, tz).value

\* one (date, price) per result, as both analysis functions form them
EntryPrices ==
    IF analysis.fn = "analyzeMonthlyFlightData" THEN AllPricesOf(allResults)
    ELSE [i \in 1..Len(allResults) |->
            [date |-> allResults[i].date, price |-> MathMin(allResults[i].itineraries)]]
Attaining(price) == {i \in 1..Len(EntryPrices) : EntryPrices[i].price = price}

InChronologicalOrder ==
    \A i, j \in 1..Len(EntryPrices) : i < j => EntryPrices[i].date <= EntryPrices[j].date

BothDayGroups ==
    /\ \E i \in 1..Len(allResults) :
          Len(allResults[i].itineraries) > 0 /\ isWeekend(allResults[i].date, tz)
    /\ \E i \in 1..Len(allResults) :
          Len(allResults[i].itineraries) > 0 /\ ~isWeekend(allResults[i].date, tz)

Zero == Fin(0, 1)

\* C9: the trend is the least-squares slope of the chronologically sorted prices
\* against 0..n-1 divided by the mean price; the direction is increasing,
\* decreasing or stable as the trend is > 0, < 0 or = 0; the strength is
\* |trend|; strictly increasing prices are increasing with strength > 0 and
\* constant prices are stable with strength 0.
C9_TrendSign ==
    MonthlyOk =>
        LET t == analysis.value.trendAnalysis
            y == Map(PriceOf, SortByDate(AllPricesOf(allResults)))
            n == Len(y)
            sumX == SeqSum([i \in 1..n |-> i - 1])
            sumY == SeqSum(y)
            sumXY == SeqSum([i \in 1..n |-> (i - 1) * y[i]])
            sumX2 == SeqSum([i \in 1..n |-> (i - 1) * (i - 1)])
        IN  /\ n >= 2 =>
                  /\ t.trend.k = "fin"
                  /\ t.trend.num * ((n * sumX2 - sumX * sumX) * sumY)
                        = t.trend.den * (n * (n * sumXY - sumX * sumY))
            /\ (t.trendDirection = "increasing") <=> NumLess(Zero, t.trend)
            /\ (t.trendDirection = "decreasing") <=> NumLess(t.trend, Zero)
            /\ (t.trendDirection = "stable") <=> (t.trend = Zero)
            /\ t.trendStrength.k = t.trend.k
            /\ t.trendStrength.num = Abs(t.trend.num)
            /\ t.trendStrength.den = t.trend.den
            /\ (n >= 2 /\ \A i \in 1..(n - 1) : y[i] < y[i + 1]) =>
                  (t.trendDirection = "increasing" /\ NumLess(Zero, t.trendStrength))
            /\ (\A i, j \in 1..n : y[i] = y[j]) =>
                  (t.trendDirection = "stable" /\ t.trendStrength = Zero)

\* C10: with fewer than 2 distinct dates in the input (here: results of distinct
\* (date, source) pairs, not all priced 0) the trend, its strength and the
\* volatility are 0 and the direction is stable.
C10_FewerThanTwoDates ==
    (MonthlyOk /\ OneResultPerPair /\ analysis.value.mostExpensivePrice > 0
        /\ Cardinality({allResults[i].date :
                          i \in {j \in 1..Len(allResults) :
                                   Len(allResults[j].itineraries) > 0}}) < 2) =>
        LET t == analysis.value.trendAnalysis
        IN  /\ t.trend = Zero
            /\ t.trendStrength = Zero
            /\ t.trendDirection = "stable"
            /\ t.volatility = Zero

----------------------------------------------------------------------------
(* Claims about the recommendations *)

Recommendations == analysis.value.recommendations
Recommends(tag) == \E i \in 1..Len(Recommendations) : Recommendations[i] = tag
GeneratorOk == AcrossOk \/ MonthlyOk

\* the place of a line in the priority order: deal alert, overpriced-date
\* warning, source callout, weekend-premium note, trend note, high-variation
\* note, volume note
Priority(tag) ==
    CASE tag = "deal" -> 1
      [] tag = "overpriced" -> 2
      [] tag \in {BestSourceLine(s) : s \in SourceNames} -> 3
      [] tag \in {"weekend", "weekendExpensive", "weekendCheaper"} -> 4
      [] tag \in {"trendUp", "trendDown"} -> 5
      [] tag = "variation" -> 6
      [] tag = "volume" -> 7

\* C11: in every output of generateRecommendations and of
\* generateMonthlyRecommendations the lines appear in the priority order: of two
\* lines present, the one of higher priority comes first.
C11_PriorityOrder ==
    GeneratorOk =>
        \A i, j \in 1..Len(Recommendations) :
            i < j => Priority(Recommendations[i]) < Priority(Recommendations[j])

\* the prices the generators work on, their number and their sum
EntryCount == Len(EntryPrices)
EntrySum == SeqSum(Map(PriceOf, EntryPrices))

\* C12: the deal alert is emitted iff the cheapest price is strictly below 80%
\* of the unrounded mean of the prices: cheapest < 0.8 * sum / n.
C12_DealThreshold ==
    (GeneratorOk /\ EveryResultHasQuotes) =>
        (Recommends("deal") <=> 5 * EntryCount * analysis.value.cheapestPrice < 4 * EntrySum)

\* the cheapest price is exactly 80% of the mean and below 80% of the rounded
\* mean that is displayed, and no deal alert is emitted
C12_Witness ==
    /\ GeneratorOk
    /\ EveryResultHasQuotes
    /\ 5 * EntryCount * analysis.value.cheapestPrice = 4 * EntrySum
    /\ 5 * analysis.value.cheapestPrice < 4 * analysis.value.averagePrice
    /\ ~Recommends("deal")

\* the entries of a source, and the sources that have entries
EntriesOf(s) == SelectSeq(AllPricesOf(allResults), LAMBDA p : p.source = s)
SourceSum(s) == SeqSum(Map(PriceOf, EntriesOf(s)))
UsedSources == {s \in SourceNames : Len(EntriesOf(s)) > 0}
\* the average of source s is the lowest of the source averages
LowestAverage(s) ==
    /\ s \in UsedSources
    /\ \A t \in UsedSources :
          SourceSum(s) * Len(EntriesOf(t)) <= SourceSum(t) * Len(EntriesOf(s))
\* the average of source s is at most 95% of the average of all prices
FivePercentBelow(s) ==
    20 * SourceSum(s) * EntryCount <= 19 * EntrySum * Len(EntriesOf(s))

SourceHelperOk == AnalyzedOk /\ analysis.fn = "generateSourceRecommendations"

\* C13: the best-source callout names the source whose average per-date-minimum
\* price is lowest, and it is emitted iff that average is at most 95% of the
\* global average (inputs of one result per date, whose prices are the per-date
\* minima); for generateSourceRecommendations the global average is the
\* averagePrice argument.
C13_BestSourceCallout ==
    /\ (MonthlyOk /\ OneResultPerDate) =>
          \A s \in SourceNames :
              Recommends(BestSourceLine(s)) <=> (LowestAverage(s) /\ FivePercentBelow(s))
    /\ (SourceHelperOk /\ OneResultPerDate) =>
          \A s \in SourceNames :
              Recommends([tag |-> "betterSource", source |-> s])
                 <=> /\ LowestAverage(s)
                     /\ 20 * SourceSum(s) <= 19 * analysis.value.averagePrice * Len(EntriesOf(s))

\* the weekend and the weekday prices of the input, by the program's isWeekend
WeekendEntries == SelectSeq(EntryPrices, LAMBDA p : isWeekend(p.date, tz))
WeekdayEntries == SelectSeq(EntryPrices, LAMBDA p : ~isWeekend(p.date, tz))
WeekendSum == SeqSum(Map(PriceOf, WeekendEntries))
WeekdaySum == SeqSum(Map(PriceOf, WeekdayEntries))
\* round((avgWeekend - avgWeekday) / avgWeekday * 100)
WeekendPremium ==
    MathRound(Fin(100 * (WeekendSum * Len(WeekdayEntries) - WeekdaySum * Len(WeekendEntries)),
                  WeekdaySum * Len(WeekendEntries)))

WeekendHelperOk == AnalyzedOk /\ analysis.fn = "generateWeekendRecommendations"
\* a call that generates weekend notes, on an input with both day groups
WeekendNoteSite ==
    /\ AcrossOk \/ (MonthlyOk /\ includeWeekendAnalysis) \/ WeekendHelperOk
    /\ EveryResultHasQuotes
    /\ Len(WeekendEntries) > 0
    /\ WeekdaySum > 0

\* C14: wherever a weekend note is generated, the 'weekends more expensive' note
\* is emitted iff weekendPremium > 20 and the 'weekends cheaper' note iff
\* weekendPremium < -10; for a premium in [-10, 20] there is no weekend note.
C14_WeekendPremiumNote ==
    WeekendNoteSite =>
        /\ (Recommends("weekend") \/ Recommends("weekendExpensive")) <=> WeekendPremium > 20
        /\ Recommends("weekendCheaper") <=> WeekendPremium < -10

\* the trend of the chronologically sorted prices
Trend == calculatePriceTrend(SortByDate(EntryPrices))

\* C15: in both generators the upward trend note is emitted iff trend > 0.15
\* and the downward one iff trend < -0.15; a trend with |trend| <= 0.15
\* produces no trend note.  (A trend of exactly 0.15 in exact arithmetic is left
\* out: there the comparison depends on the rounding of the double sums.)
C15_TrendNote ==
    (GeneratorOk /\ EveryResultHasQuotes /\ EntrySum > 0
        /\ NumAbs(Trend) # Fin(15, 100)) =>
        /\ Recommends("trendUp") <=> NumLess(Fin(15, 100), Trend)
        /\ Recommends("trendDown") <=> NumLess(Trend, Fin(-15, 100))

\* the distinct dates of the prices the generators work on
DistinctDates == {EntryPrices[i].date : i \in 1..Len(EntryPrices)}

\* C16: the volume note is emitted iff the number of distinct dates searched
\* strictly exceeds 7 (multi-date analysis) or 20 (monthly analysis).
C16_VolumeNote ==
    /\ AcrossOk => (Recommends("volume") <=> Cardinality(DistinctDates) > 7)
    /\ MonthlyOk => (Recommends("volume") <=> Cardinality(DistinctDates) > 20)

\* the elements of a set of numbers in ascending order
RECURSIVE AscendingSeqOf(_)
AscendingSeqOf(S) ==
    IF S = {} THEN <<>> ELSE <<SetMin(S)>> \o AscendingSeqOf(S \ {SetMin(S)})

\* the dates for which some result has an itinerary, and their lowest prices
\* sorted ascending
PricedDates ==
    {allResults[i].date : i \in {j \in 1..Len(allResults) : Len(allResults[j].itineraries) > 0}}
SortedPerDateMinima ==
    LET ds == AscendingSeqOf(PricedDates)
    IN  SortAscending([i \in 1..Len(ds) |-> PerDateMinimum(ds[i])])

\* C17: with the n per-date minimum prices sorted ascending as p[0..n-1], the
\* distribution is min = p[0], q25 = p[floor(0.25 n)], median = p[floor(0.5 n)],
\* q75 = p[floor(0.75 n)], max = p[n-1], where n counts dates.
C17_Distribution ==
    MonthlyOk =>
        LET p == SortedPerDateMinima
            n == Len(p)
            d == analysis.value.priceDistribution
        IN  /\ d.min = p[1]
            /\ d.q25 = p[(n \div 4) + 1]
            /\ d.median = p[(n \div 2) + 1]
            /\ d.q75 = p[((3 * n) \div 4) + 1]
            /\ d.max = p[n]

----------------------------------------------------------------------------
(* Further claims about the collection loops *)

\* the k-th (date, source) pair of the request, in loop order, and the
\* connector of its source
PairAt(k) ==
    LET source == sources[((k - 1) % Len(sources)) + 1]
    IN  [date |-> dates[((k - 1) \div Len(sources)) + 1],
         source |-> source,
         service |-> IF source = "skyscanner" THEN "skyscannerService"
                     ELSE "googleFlightsService"]

\* C18: during a collection run every (date, source) pair of the request is
\* passed to the connector of its source exactly once, whatever the call does:
\* the calls made so far are the first pairs of the request, one call each, and
\* a finished run has called them all.
C18_EachPairExactlyOnce ==
    /\ Len(calls) <= TotalPairs
    /\ \A k \in 1..Len(calls) :
          [date |-> calls[k].date, source |-> calls[k].source,
           service |-> calls[k].service] = PairAt(k)
    /\ Finished => Len(calls) = TotalPairs

\* a finished run over four pairs in which one call threw, one returned no
\* itinerary and one returned itineraries
C18_Witness ==
    /\ Finished
    /\ Len(dates) = 2 /\ Len(sources) = 2
    /\ Len(calls) = 4
    /\ \E k \in 1..4 : calls[k].threw
    /\ \E k \in 1..4 : ~calls[k].threw /\ Len(calls[k].itineraries) = 0
    /\ \E k \in 1..4 : ~calls[k].threw /\ Len(calls[k].itineraries) > 0

\* C19: when a run over a non-empty date list fails because every connector
\* call threw, the message of the no-data error names the origin and the
\* destination of the request.
C19_NoDataErrorNamesRoute ==
    (pc = "threw" /\ Len(dates) > 0 /\ \A k \in 1..Len(calls) : calls[k].threw) =>
        /\ Origin \in Range(error)
        /\ Destination \in Range(error)

----------------------------------------------------------------------------
(* Claims about getBestPriceAcrossDates *)

\* no search of the call resolved with an itinerary
NoDateYields == \A k \in 1..Len(calls) : calls[k].threw \/ Len(calls[k].itineraries) = 0

\* C20: when no searched date yields any itinerary (in particular when dates is
\* empty) getBestPriceAcrossDates rejects with "No flights found for any of the
\* specified dates"; it never resolves with a best price and date that no
\* search returned.
C20_NoDataIsAFailure ==
    /\ (Finished /\ NoDateYields) => (pc = "threw" /\ error = NoFlightsForDates)
    /\ pc = "returned" =>
          \E k \in 1..Len(calls) :
              /\ ~calls[k].threw
              /\ Len(calls[k].itineraries) > 0
              /\ calls[k].date = analysis.value.bestDate
              /\ MathMin(calls[k].itineraries) = analysis.value.bestPrice

\* the searches of the call that resolved with an itinerary
YieldingCalls == {k \in 1..Len(calls) : ~calls[k].threw /\ Len(calls[k].itineraries) > 0}

\* C21: getBestPriceAcrossDates finds the best price across all the dates it is
\* given, whatever their number: every supplied date is searched, bestPrice is
\* the minimum of the lowest itinerary prices of the dates whose search
\* returned itineraries, and bestDate is a date whose search attained it.
C21_BestOverAllDates ==
    (pc = "returned" /\ YieldingCalls # {}) =>
        /\ \A i \in 1..Len(dates) : \E k \in 1..Len(calls) : calls[k].date = dates[i]
        /\ analysis.value.bestPrice =
              SetMin({MathMin(calls[k].itineraries) : k \in YieldingCalls})
        /\ \E k \in YieldingCalls :
              /\ calls[k].date = analysis.value.bestDate
              /\ MathMin(calls[k].itineraries) = analysis.value.bestPrice

----------------------------------------------------------------------------
(* Claims about getTopFlightRecommendations *)

TopReturned == pc = "analyzed" /\ analysis.fn = "getTopFlightRecommendations"

\* the positions of the results that have itineraries
ResultsWithItineraries == {i \in 1..Len(allResults) : Len(allResults[i].itineraries) > 0}

\* the result an entry was made from
ResultOf(entry) ==
    CHOOSE i \in 1..Len(allResults) :
        allResults[i].date = entry.date /\ allResults[i].source = entry.source

\* C22: getTopFlightRecommendations returns at most 5 entries in order of
\* non-decreasing price, each made from a different result that has
\* itineraries and carrying the price and the itinerary of that result's
\* cheapest itinerary, and the entries hold the lowest per-result minimum
\* prices: no result left out is cheaper than one listed.
C22_TopFive ==
    TopReturned =>
        LET recs == analysis.value
            listed == {ResultOf(recs[k]) : k \in 1..Len(recs)}
        IN  /\ Len(recs) <= 5
            /\ \A k \in 1..(Len(recs) - 1) : recs[k].price <= recs[k + 1].price
            /\ listed \subseteq ResultsWithItineraries
            /\ Cardinality(listed) = Len(recs)
            /\ Len(recs) = 5 \/ listed = ResultsWithItineraries
            /\ \A k \in 1..Len(recs) :
                  LET its == allResults[ResultOf(recs[k])].itineraries
                  IN  /\ recs[k].price = MathMin(its)
                      /\ its[recs[k].itinerary] = MathMin(its)
            /\ \A i \in ResultsWithItineraries \ listed, k \in 1..Len(recs) :
                  recs[k].price <= MathMin(allResults[i].itineraries)

----------------------------------------------------------------------------
(* Claims about generateMonthDates *)

\* C23: whatever the time zone of the host, the dates a monthly search runs
\* over are the days of the requested month, each once, in ascending order,
\* and no day outside the month.
C23_EveryDayOfTheMonth ==
    impl \in MonthlyImpls =>
        /\ Len(dates) = DaysInMonth
        /\ \A i \in 1..Len(dates) : dates[i] = i

----------------------------------------------------------------------------
(* Claims about the connectors *)

\* the calls that have returned
Done == {c \in Procs : proc[c].pc = "done"}

\* C24: searchFlights returns the result of the first strategy, in the order
\* official API, scraping, mock data, that yields itineraries: a call never
\* returns an empty itinerary list, in particular not an empty API response.
C24_FirstNonEmptyStrategy ==
    \A c \in Done : proc[c].itineraries # <<>>

\* C25: any two scraping requests that passed enforceRateLimit on one
\* SkyscannerService did so at least MIN_REQUEST_INTERVAL apart, also when the
\* calls overlap.
C25_RequestsSpacedApart ==
    \A i, j \in 1..Len(starts) :
        i < j => starts[j] - starts[i] >= MIN_REQUEST_INTERVAL

\* C27: when a searchFlights call has returned, the page it opened with
\* browser.newPage() is closed.
C27_NoPageLeft ==
    \A c \in Done : ~(proc[c].page = "open" /\ proc[c].browser \in openBrowsers)

\* C28: concurrent searchFlights calls launch at most one browser while
\* this.browser is unset, and every launched browser that is still open is the
\* one this.browser refers to.
C28_OneBrowser ==
    /\ Cardinality({c \in Procs : proc[c].pc = "launching"}) <= 1
    /\ openBrowsers \subseteq {browser}

----------------------------------------------------------------------------
(* Claims about the agreement of the two multi-date collections *)

\* what the other multi-date implementation collects from the same outcomes
OtherCollects ==
    IF impl = "handleSearchMultipleDates" THEN HelperCollects(calls)
    ELSE HandlerCollects(calls)

\* C26: for the same request and the same outcomes of the connector calls,
\* FlightSearchHelper.searchMultipleDates and handleSearchMultipleDates
\* collect the same sequence of (date, results) entries and raise the no-data
\* error in exactly the same cases.
C26_MultiDateLoopsAgree ==
    (Finished /\ impl \in MultiDateImpls) =>
        /\ allResults = OtherCollects
        /\ (pc = "threw" /\ error = NoFlightsForDates) <=> (Len(OtherCollects) = 0)

----------------------------------------------------------------------------
(* Claims about the polling of SkyscannerAPIService.searchFlights *)

\* a poll after which the loop goes on: an ok response that is not complete
Incomplete(outcome) ==
    outcome.kind = "response" /\ outcome.ok /\ outcome.status # "RESULT_STATUS_COMPLETE"

\* a poll whose response is ok and complete
Complete(outcome) ==
    outcome.kind = "response" /\ outcome.ok /\ outcome.status = "RESULT_STATUS_COMPLETE"

\* a poll whose HTTP response is not ok
NotOk(outcome) == outcome.kind = "response" /\ ~outcome.ok

LastPoll == polls[Len(polls)]

\* C29: once the session exists, searchFlights polls at most 10 times and
\* never after a poll that was complete, not ok, or the tenth: every poll but
\* the last was ok and incomplete; the call returns exactly at a complete poll,
\* with its converted result; it throws the poll-failed error exactly at a
\* poll that was not ok, and the timed-out error exactly after 10 polls that
\* were all ok and incomplete.
C29_PollingTerminates ==
    /\ Len(polls) <= maxAttempts
    /\ \A i \in 1..(Len(polls) - 1) : Incomplete(polls[i])
    /\ (pc = "returned") <=> (polls # <<>> /\ Complete(LastPoll))
    /\ pc = "returned" =>
          analysis = Returned("searchFlights",
                         convertAPIResponseToFlightSearchResponse(LastPoll))
    /\ (polls # <<>> /\ NotOk(LastPoll)) <=>
          (pc = "threw" /\ \E h \in {429, 500} : error = PollFailed(h))
    /\ (pc = "threw" /\ error = TimedOut) <=>
          (pc # "polling" /\ Len(polls) = maxAttempts /\ Incomplete(LastPoll))
    /\ pc = "polling" => (polls = <<>> \/ Incomplete(LastPoll))

\* ten polls were ok and incomplete and the call has thrown the timed-out error
C29_Witness ==
    /\ pc = "threw"
    /\ error = TimedOut
    /\ Len(polls) = maxAttempts
    /\ \A i \in 1..Len(polls) : Incomplete(polls[i])

----------------------------------------------------------------------------
(* Claims about the order of the statistics *)

\* x <= y for JS numbers: false when either is NaN
NumLeq(x, y) == x.k # "nan" /\ y.k # "nan" /\ ~NumLess(y, x)

\* the lowest price of each result of the input
LowestPerResult ==
    [i \in 1..Len(allResults) |-> [price |-> MathMin(allResults[i].itineraries)]]

\* C30: for a non-empty input whose results all have an itinerary (with a
\* finite price >= 0), cheapestPrice <= average before rounding <=
\* mostExpensivePrice and priceRange = mostExpensivePrice - cheapestPrice >= 0;
\* in the monthly analysis also distribution.min = cheapestPrice <= q25 <=
\* median <= q75 <= distribution.max = mostExpensivePrice and volatility >= 0.
C30_StatisticsOrdered ==
    (AnalyzedOk /\ (AcrossOk \/ MonthlyOk) /\ EveryResultHasQuotes) =>
        LET v == analysis.value
            mean == MeanPrice(LowestPerResult)
        IN  /\ NumLeq(Lift(v.cheapestPrice), mean)
            /\ NumLeq(mean, Lift(v.mostExpensivePrice))
            /\ v.priceRange = v.mostExpensivePrice - v.cheapestPrice
            /\ v.priceRange >= 0
            /\ MonthlyOk =>
                  /\ v.priceDistribution.min = v.cheapestPrice
                  /\ v.priceDistribution.min <= v.priceDistribution.q25
                  /\ v.priceDistribution.q25 <= v.priceDistribution.median
                  /\ v.priceDistribution.median <= v.priceDistribution.q75
                  /\ v.priceDistribution.q75 <= v.priceDistribution.max
                  /\ v.priceDistribution.max = v.mostExpensivePrice
                  /\ NumLeq(Fin(0, 1), v.trendAnalysis.volatility)

====
